---- MODULE Spec2Model ----
(***************************************************************************)
(* The jsonfsm transition engine (package gofsm: FSM.Init, Register,       *)
(* GetState, SetState, SendEvent, beginTransition, callAction) together    *)
(* with its HTTP front end (main.go: main, eventHandler and the four       *)
(* registered handlers).                                                   *)
(*                                                                         *)
(* Every goroutine is a "thread" with its own program counter.  Thread 0   *)
(* is main(); threads 1..MaxReq are the goroutines net/http starts, one    *)
(* per request.  A step of a thread is one access to shared memory         *)
(* (fsm.CurrentState, fsm.handlers, httpWriter) together with the local    *)
(* computation around it: each load of a field of fsm.CurrentState is a    *)
(* step of its own, the store of the struct is one step.  The recursion    *)
(* SetState -> beginTransition -> SetState never uses a returned value     *)
(* (SendEvent and SetState drop the result of beginTransition), so a call  *)
(* stack is its depth, the locals of the innermost frame and the result    *)
(* of the outermost one.                                                   *)
(***************************************************************************)
EXTENDS Integers, Sequences, FiniteSets, TLC

\* Number of request goroutines (bound of the model).
MaxReq == 2
\* Number of nested beginTransition frames a goroutine stack holds before
\* the runtime ends the process with "stack overflow" (bound of the model;
\* the real limit is the 1 GB goroutine stack).
MaxDepth == 4

\* main() runs on thread 0; the zero value of httpWriter is the nil writer 0.
Main == 0
NoWriter == 0
Requests == 1..MaxReq
Threads == {Main} \cup Requests

\* const expectedCode in main.go
expectedCode == "123"

----------------------------------------------------------------------------
\* Data model: State, Transition, and the configurations json.Unmarshal
\* hands to the engine.

St(name, action, arg, wait, resp) ==
    [Name |-> name, Action |-> action, ActionArg |-> arg,
     WaitForEvent |-> wait, SendResponse |-> resp]

Tr(from, toS, toF, branch, event) ==
    [From |-> from, ToSuccess |-> toS, ToFailure |-> toF,
     Branch |-> branch, Event |-> event]

\* Go's zero values
ZeroState == St("", "", "", FALSE, FALSE)
ZeroTransition == Tr("", "", "", FALSE, "")

\* The alarm panel of fsm.json.
AlarmConfig ==
    [InitialState |-> "DISARMED",
     ExpectedCode |-> "123",
     States |-> << St("DISARMED", "Log", "", TRUE, TRUE),
                   St("ENTER_CODE", "ValidateCode", "", TRUE, FALSE),
                   St("SEND_OK_RESPONSE", "SendResponse", "OK", FALSE, TRUE),
                   St("SEND_ERROR_RESPONSE", "SendResponse", "ERROR", FALSE, TRUE),
                   St("ARMED", "Log", "", TRUE, FALSE) >>,
     Transitions |-> << Tr("DISARMED", "ENTER_CODE", "", FALSE, "ARM"),
                        Tr("ENTER_CODE", "SEND_OK_RESPONSE", "SEND_ERROR_RESPONSE",
                           TRUE, "USER_CODE"),
                        Tr("SEND_OK_RESPONSE", "ARMED", "", FALSE, ""),
                        Tr("SEND_ERROR_RESPONSE", "ENTER_CODE", "", FALSE, "") >>]

\* A well-formed machine whose initial state does not wait for an event.
AutoStartConfig ==
    [InitialState |-> "BOOT",
     ExpectedCode |-> "123",
     States |-> << St("BOOT", "Log", "booting", FALSE, FALSE),
                   St("IDLE", "Log", "", TRUE, FALSE) >>,
     Transitions |-> << Tr("BOOT", "IDLE", "", FALSE, ""),
                        Tr("IDLE", "BOOT", "", FALSE, "GO") >>]

\* Two non-waiting states that transition to each other, entered by an event.
CycleConfig ==
    [InitialState |-> "WAIT",
     ExpectedCode |-> "123",
     States |-> << St("WAIT", "Log", "", TRUE, FALSE),
                   St("PING", "Log", "ping", FALSE, FALSE),
                   St("PONG", "Log", "pong", FALSE, FALSE) >>,
     Transitions |-> << Tr("WAIT", "PING", "", FALSE, "GO"),
                        Tr("PING", "PONG", "", FALSE, ""),
                        Tr("PONG", "PING", "", FALSE, "") >>]

\* The same cycle, entered by Init.
CycleInitConfig == [CycleConfig EXCEPT !.InitialState = "PING"]

\* A machine with the defects the engine reports at run time: a destination
\* that is no state, a non-waiting state without a transition, an action with
\* no handler, and an unbranched transition out of a state whose handler can
\* return false.
BrokenConfig ==
    [InitialState |-> "S0",
     ExpectedCode |-> "123",
     States |-> << St("S0", "ValidateCode", "", TRUE, FALSE),
                   St("S1", "Undefined", "", TRUE, FALSE),
                   St("DEAD", "Log", "dead", FALSE, FALSE),
                   St("MID", "Log", "mid", FALSE, FALSE) >>,
     Transitions |-> << Tr("S0", "S1", "DEAD", FALSE, "PLAIN"),
                        Tr("S0", "NOWHERE", "DEAD", TRUE, "LOST"),
                        Tr("S0", "MID", "", FALSE, "CHAIN"),
                        Tr("MID", "NOWHERE", "", FALSE, ""),
                        Tr("S1", "S0", "", FALSE, "GO") >>]

\* A machine whose transition list is ambiguous: two transitions for the same
\* state and event, a non-waiting state whose first transition carries an
\* event, and a waiting state left only by a transition without an event.
AmbiguousConfig ==
    [InitialState |-> "A",
     ExpectedCode |-> "123",
     States |-> << St("A", "Log", "", TRUE, FALSE),
                   St("B", "Log", "", TRUE, FALSE),
                   St("C", "Log", "", TRUE, FALSE),
                   St("N", "Log", "n", FALSE, FALSE) >>,
     Transitions |-> << Tr("A", "B", "", FALSE, "GO"),
                        Tr("A", "C", "", FALSE, "GO"),
                        Tr("B", "N", "", FALSE, "GO"),
                        Tr("N", "A", "", FALSE, "EV"),
                        Tr("N", "C", "", FALSE, ""),
                        Tr("C", "A", "", FALSE, "") >>]

Configs == {AlarmConfig, AutoStartConfig, CycleConfig, CycleInitConfig, BrokenConfig,
            AmbiguousConfig}

\* What a request body can carry.
Params == {"123", "000"}
EventNames(transitions) ==
    {transitions[k].Event : k \in 1..Len(transitions)} \cup {"", "NOPE"}
StateNames(states) ==
    {states[k].Name : k \in 1..Len(states)} \cup {"NOWHERE"}

----------------------------------------------------------------------------
VARIABLES
    InitialState,   \* FSM.InitialState
    States,         \* FSM.States
    Transitions,    \* FSM.Transitions
    ExpectedCode,   \* FSM.ExpectedCode
    CurrentState,   \* FSM.CurrentState
    handlers,       \* FSM.handlers: NilMap or a function name -> handler
    regs,           \* the Register calls the program makes after Init
    httpWriter,     \* main.go's global: 0 is nil, r is request r's writer
    resp,           \* resp[r]: what was written to the writer of request r
    th,             \* th[p]: the frame of thread p
    mainpc,         \* where main() is
    crashed         \* the process has ended abnormally

vars == << InitialState, States, Transitions, ExpectedCode, CurrentState,
           handlers, regs, httpWriter, resp, th, mainpc, crashed >>

----------------------------------------------------------------------------
\* Frames

IdleFrame ==
    [pc |-> "idle",          \* position in the code
     op |-> "none",          \* the outermost call: Init, SetState, SendEvent
     ev |-> "", param |-> "",\* SendEvent's eventName and eventParam
     name |-> "",            \* the outermost SetState's name
     i |-> 0,                \* index of the range loop over fsm.Transitions
     t |-> ZeroTransition,   \* beginTransition's t
     arg |-> "",             \* beginTransition's actionArg
     newState |-> ZeroState, \* SetState's newState
     ret |-> "nil",          \* what the outermost call returned
     dropped |-> "nil",      \* the error an inner call returned to a caller
                             \* that ignores it
     links |-> << >>,        \* history: the beginTransition calls made
     pre |-> ZeroState,      \* history: fsm.CurrentState when the call began
     decoded |-> TRUE,       \* history: the body of the request was decoded
     first |-> FALSE]        \* history: no other call was active then

\* GetState: the first state of the list with the name.
GetStateRange(name, k) ==
    {j \in 1..k : States[j].Name = name}

GetState(name) ==
    LET hits == GetStateRange(name, Len(States))
    IN  IF hits = {}
        THEN [err |-> "StateNotFound", state |-> ZeroState]
        ELSE [err |-> "nil",
              state |-> States[CHOOSE j \in hits : \A k \in hits : j <= k]]

\* A return of the innermost SetState/SendEvent frame with result err.  Every
\* caller inside the engine ignores the result of beginTransition and returns
\* nil itself, so only the outermost frame's own result reaches the caller.
Return(f, err) ==
    [f EXCEPT !.pc = "ret",
              !.ret = IF Len(f.links) = 0 THEN err ELSE "nil",
              !.dropped = IF Len(f.links) = 0 THEN "nil" ELSE err]

\* A SetState that assigns what GetState returned without looking at the error.
EnterSetStateUnchecked(f, name) ==
    [f EXCEPT !.pc = "write_cs", !.newState = GetState(name).state]

\* SetState up to the assignment of fsm.CurrentState.
EnterSetState(f, name) ==
    LET r == GetState(name)
    IN  IF r.err # "nil"
        THEN Return(f, r.err)
        ELSE [f EXCEPT !.pc = "write_cs", !.newState = r.state]

\* The start of a range loop over fsm.Transitions.
EnterScan(f, pc, err) ==
    IF Len(Transitions) = 0
    THEN Return(f, err)
    ELSE [f EXCEPT !.pc = pc, !.i = 1]

----------------------------------------------------------------------------
\* The handlers main() registers.

Registrations ==
    << [name |-> "Log", f |-> "logArg"],
       [name |-> "LogRespond", f |-> "logRespond"],
       [name |-> "ValidateCode", f |-> "validateCode"],
       [name |-> "SendResponse", f |-> "sendResponse"] >>

\* A program that binds ValidateCode a second time, to logArg.
RebindRegistrations ==
    Registrations \o << [name |-> "ValidateCode", f |-> "logArg"] >>

\* A program whose ValidateCode handler panics on a code it does not accept.
StrictRegistrations ==
    [Registrations EXCEPT ![3] = [name |-> "ValidateCode", f |-> "strictCode"]]

\* The programs: main.go on every configuration, and the two other programs
\* on the alarm panel.
Programs ==
    {[config |-> c, regs |-> Registrations] : c \in Configs}
    \cup {[config |-> AlarmConfig, regs |-> RebindRegistrations],
          [config |-> AlarmConfig, regs |-> StrictRegistrations]}

\* A handler panics instead of returning.
HandlerPanics(h, arg) ==
    h = "strictCode" /\ arg # expectedCode

\* Handlers that all report success.
HandlerResultTrue(h, arg) == TRUE

\* The bool a handler returns.
HandlerResult(h, arg) ==
    IF h = "validateCode" THEN arg = expectedCode ELSE TRUE

\* The status a handler writes to httpWriter; 0 when it writes nothing.
HandlerWrites(h, arg) ==
    CASE h = "logRespond" -> 200
      [] h = "sendResponse" -> IF arg = "OK" THEN 200 ELSE 406
      [] OTHER -> 0

\* fsm.handlers[name]: a missing key, and any key of a nil map, gives nil.
Lookup(name) ==
    IF name \in DOMAIN handlers.map THEN handlers.map[name] ELSE "nil"

Init ==
    /\ \E prog \in Programs :
          /\ InitialState = prog.config.InitialState
          /\ States = prog.config.States
          /\ Transitions = prog.config.Transitions
          /\ ExpectedCode = prog.config.ExpectedCode
          /\ regs = prog.regs
    /\ CurrentState = ZeroState
    /\ handlers = [nil |-> TRUE, map |-> << >>]
    /\ httpWriter = NoWriter
    /\ resp = [r \in Requests |-> << >>]
    /\ th = [p \in Threads |-> IdleFrame]
    /\ mainpc = "start"
    /\ crashed = FALSE

----------------------------------------------------------------------------
\* main()

shared == << CurrentState, handlers, httpWriter, resp >>
config == << InitialState, States, Transitions, ExpectedCode, regs >>

\* fsm.Init(), first statement: fsm.SetState(fsm.InitialState).
InitCall ==
    /\ mainpc = "start" /\ ~crashed
    /\ th' = [th EXCEPT ![Main] =
                EnterSetState([IdleFrame EXCEPT !.op = "Init", !.name = InitialState,
                                                !.pre = CurrentState],
                              InitialState)]
    /\ mainpc' = "init"
    /\ UNCHANGED << config, shared, crashed >>

\* A caller that calls the exported fsm.Init() again on a machine whose
\* handlers are registered, while no request is being handled, and registers
\* the handlers anew afterwards.
InitAgain ==
    /\ mainpc = "serve" /\ ~crashed
    /\ \A r \in Requests : th[r].pc = "idle"
    /\ th' = [th EXCEPT ![Main] =
                EnterSetState([IdleFrame EXCEPT !.op = "Init", !.name = InitialState,
                                                !.pre = CurrentState],
                              InitialState)]
    /\ mainpc' = "init"
    /\ UNCHANGED << config, shared, crashed >>

\* fsm.Init(), second statement: fsm.handlers = map[string]Handler{}.
\* Init has no result: what SetState returned is dropped.
InitReturn ==
    /\ mainpc = "init" /\ ~crashed
    /\ th[Main].pc = "ret"
    /\ handlers' = [nil |-> FALSE, map |-> << >>]
    /\ th' = [th EXCEPT ![Main].pc = "done", ![Main].i = 1]
    /\ mainpc' = "register"
    /\ UNCHANGED << config, CurrentState, httpWriter, resp, crashed >>

\* A Register that keeps the handler a name is already bound to.
RegisterKeepFirst(name, f) ==
    IF handlers.nil
    THEN /\ crashed' = TRUE
         /\ UNCHANGED handlers
    ELSE /\ handlers' = [handlers EXCEPT !.map = @ @@ (name :> f)]
         /\ UNCHANGED crashed

\* fsm.Register(name, f): fsm.handlers[name] = f.  Storing into a nil map
\* panics, and a panic of main() ends the process.
Register(name, f) ==
    IF handlers.nil
    THEN /\ crashed' = TRUE
         /\ UNCHANGED handlers
    ELSE /\ handlers' = [handlers EXCEPT !.map = (name :> f) @@ @]
         /\ UNCHANGED crashed

\* main() registers its handlers in order, then serves.
RegisterNext ==
    /\ mainpc = "register" /\ ~crashed
    /\ LET k == th[Main].i
       IN  /\ Register(regs[k].name, regs[k].f)
           /\ th' = [th EXCEPT ![Main].i = k + 1]
           /\ mainpc' = IF k = Len(regs) THEN "serve" ELSE "register"
    /\ UNCHANGED << config, CurrentState, httpWriter, resp >>

----------------------------------------------------------------------------
\* Callers on the request goroutines

\* Requests handled one at a time: no other request goroutine is active.
Alone(r) == \A q \in Requests \ {r} : th[q].pc = "idle"

\* An eventHandler that ignores the decoding error and goes on with the
\* zero Event.
StartRequestNoDecodeCheck(r, decoded, action, param) ==
    /\ mainpc = "serve" /\ ~crashed
    /\ th[r].pc = "idle"
    /\ th' = [th EXCEPT ![r] = [IdleFrame EXCEPT !.pc = "set_writer",
                                  !.op = "SendEvent",
                                  !.ev = IF decoded THEN action ELSE "",
                                  !.param = IF decoded THEN param ELSE "",
                                  !.pre = CurrentState,
                                  !.decoded = decoded,
                                  !.first = Alone(r)]]
    /\ resp' = [resp EXCEPT ![r] = << >>]
    /\ UNCHANGED << config, CurrentState, handlers, httpWriter, mainpc, crashed >>

\* eventHandler up to the decoding of the body.  An undecodable body is
\* answered with 400 and the handler returns.
StartRequest(r, decoded, action, param) ==
    /\ mainpc = "serve" /\ ~crashed
    /\ th[r].pc = "idle"
    /\ IF decoded
       THEN /\ th' = [th EXCEPT ![r] = [IdleFrame EXCEPT !.pc = "set_writer",
                                          !.op = "SendEvent",
                                          !.ev = action, !.param = param,
                                          !.pre = CurrentState,
                                          !.first = Alone(r)]]
            /\ resp' = [resp EXCEPT ![r] = << >>]
       ELSE /\ th' = [th EXCEPT ![r] = [IdleFrame EXCEPT !.pc = "done",
                                          !.op = "BadRequest", !.ret = "decode",
                                          !.pre = CurrentState,
                                          !.decoded = FALSE]]
            /\ resp' = [resp EXCEPT ![r] = << [code |-> 400, by |-> r] >>]
    /\ UNCHANGED << config, CurrentState, handlers, httpWriter, mainpc, crashed >>

\* httpWriter = w, then the call of fsm.SendEvent(event.Action, event.Param).
SetWriter(r) ==
    /\ th[r].pc = "set_writer" /\ ~crashed
    /\ httpWriter' = r
    /\ th' = [th EXCEPT ![r] =
                EnterScan(@, "send_scan", "TransitionNotFound")]
    /\ UNCHANGED << config, CurrentState, handlers, resp, mainpc, crashed >>

\* A direct call of the exported fsm.SetState(name).
CallSetState(r, name) ==
    /\ mainpc = "serve" /\ ~crashed
    /\ th[r].pc = "idle"
    /\ th' = [th EXCEPT ![r] =
                EnterSetState([IdleFrame EXCEPT !.op = "SetState", !.name = name,
                                                !.pre = CurrentState],
                              name)]
    /\ UNCHANGED << config, shared, mainpc, crashed >>

\* The outermost call has returned.  eventHandler answers an error with 400.
Returned(r) ==
    /\ th[r].pc = "ret" /\ ~crashed
    /\ r \in Requests
    /\ th' = [th EXCEPT ![r].pc = "done"]
    /\ resp' = IF th[r].op = "SendEvent" /\ th[r].ret # "nil"
               THEN [resp EXCEPT ![r] = Append(@, [code |-> 400, by |-> r])]
               ELSE resp
    /\ UNCHANGED << config, CurrentState, handlers, httpWriter, mainpc, crashed >>

\* The goroutine ends; the next request reuses the slot.
Finish(r) ==
    /\ th[r].pc = "done" /\ ~crashed
    /\ r \in Requests
    /\ th' = [th EXCEPT ![r] = IdleFrame]
    /\ resp' = [resp EXCEPT ![r] = << >>]
    /\ UNCHANGED << config, CurrentState, handlers, httpWriter, mainpc, crashed >>

----------------------------------------------------------------------------
\* The engine, one step per access to shared memory

\* A panic that is swallowed on the way up: the caller sees a normal return.
PanicSwallowed(p, f) ==
    /\ th' = [th EXCEPT ![p] = [f EXCEPT !.pc = IF p = Main THEN "panic" ELSE "done",
                                         !.ret = "nil"]]
    /\ crashed' = (p = Main)

\* A panic unwinds the goroutine.  On main() it ends the process; on a
\* request goroutine net/http recovers it and the handler is abandoned
\* without a response.
Panic(p, f) ==
    /\ th' = [th EXCEPT ![p] = [f EXCEPT !.pc = IF p = Main THEN "panic" ELSE "done",
                                         !.ret = "panic"]]
    /\ crashed' = (p = Main)

\* A lookup that takes the last transition that matches, not the first.
SendMatchLast(k, eventName) ==
    /\ Transitions[k].From = CurrentState.Name
    /\ Transitions[k].Event = eventName
    /\ \A j \in (k + 1)..Len(Transitions) :
           ~(Transitions[j].From = CurrentState.Name
             /\ Transitions[j].Event = eventName)

\* A lookup whose answer depends on which request set httpWriter last.
SendMatchFirstWriter(k, eventName) ==
    /\ Transitions[k].From = CurrentState.Name
    /\ Transitions[k].Event = eventName
    /\ httpWriter = 1

\* A lookup that compares the source state only.
SendMatchAnyEvent(k, eventName) ==
    Transitions[k].From = CurrentState.Name

\* The transition of the list at index k matches the current state and event.
SendMatch(k, eventName) ==
    /\ Transitions[k].From = CurrentState.Name
    /\ Transitions[k].Event = eventName

\* A SendEvent that returns nil when no transition matches.
SendEventSilent(p) ==
    /\ th[p].pc = "send_scan" /\ ~crashed
    /\ LET f == th[p]
           k == f.i
       IN  th' = [th EXCEPT ![p] =
                    IF SendMatch(k, f.ev)
                    THEN [f EXCEPT !.pc = "call_action", !.t = Transitions[k],
                                   !.arg = f.param]
                    ELSE IF k = Len(Transitions)
                         THEN Return(f, "nil")
                         ELSE [f EXCEPT !.i = k + 1]]
    /\ UNCHANGED << config, shared, mainpc, crashed >>

\* SendEvent: one iteration of the loop over fsm.Transitions.
SendEvent(p) ==
    /\ th[p].pc = "send_scan" /\ ~crashed
    /\ LET f == th[p]
           k == f.i
       IN  th' = [th EXCEPT ![p] =
                    IF SendMatch(k, f.ev)
                    THEN [f EXCEPT !.pc = "call_action", !.t = Transitions[k],
                                   !.arg = f.param]
                    ELSE IF k = Len(Transitions)
                         THEN Return(f, "TransitionNotFound")
                         ELSE [f EXCEPT !.i = k + 1]]
    /\ UNCHANGED << config, shared, mainpc, crashed >>

\* The writer of request w still takes output: its eventHandler has not
\* returned.  What is written afterwards is discarded by net/http.
Open(w) == th[w].pc \notin {"idle", "done"}

\* A choice of the next state that ignores the branch flag.
NextStateOfNoBranch(t, success) ==
    IF ~success THEN t.ToFailure ELSE t.ToSuccess

\* beginTransition: the choice of the next state.
NextStateOf(t, success) ==
    IF t.Branch /\ ~success THEN t.ToFailure ELSE t.ToSuccess

\* beginTransition(t, actionArg): callAction, the choice of nextState and the
\* start of SetState(nextState).  callAction calls fsm.handlers[action]; a nil
\* handler panics, and so does a handler that panics itself or writes to a nil
\* httpWriter.  A goroutine whose stack is full ends the process.
beginTransition(p) ==
    /\ th[p].pc = "call_action" /\ ~crashed
    /\ LET f == th[p]
           action == CurrentState.Action
           h == Lookup(action)
           code == HandlerWrites(h, f.arg)
           success == HandlerResult(h, f.arg)
           nextState == NextStateOf(f.t, success)
           link == [state |-> CurrentState.Name, action |-> action, handler |-> h,
                    arg |-> f.arg, success |-> success, t |-> f.t,
                    nextState |-> nextState]
       IN  IF Len(f.links) >= MaxDepth
           THEN /\ crashed' = TRUE
                /\ th' = [th EXCEPT ![p].pc = "overflow"]
                /\ UNCHANGED resp
           ELSE IF \/ h = "nil"
                   \/ HandlerPanics(h, f.arg)
                   \/ code # 0 /\ httpWriter = NoWriter
           THEN /\ Panic(p, f)
                /\ UNCHANGED resp
           ELSE /\ resp' = IF code # 0 /\ Open(httpWriter)
                           THEN [resp EXCEPT ![httpWriter] =
                                    Append(@, [code |-> code, by |-> p])]
                           ELSE resp
                /\ th' = [th EXCEPT ![p] =
                            EnterSetState([f EXCEPT !.links = Append(@, link)],
                                          nextState)]
                /\ UNCHANGED crashed
    /\ UNCHANGED << config, CurrentState, handlers, httpWriter, mainpc >>

\* SetState: fsm.CurrentState = newState.
SetState(p) ==
    /\ th[p].pc = "write_cs" /\ ~crashed
    /\ CurrentState' = th[p].newState
    /\ th' = [th EXCEPT ![p].pc = "check_wait"]
    /\ UNCHANGED << config, handlers, httpWriter, resp, mainpc, crashed >>

\* A SetState that, called by beginTransition, goes on to the automatic
\* transition whether or not the state it entered waits for an event.
CheckWaitIgnored(p) ==
    /\ th[p].pc = "check_wait" /\ ~crashed
    /\ th' = [th EXCEPT ![p] =
                IF CurrentState.WaitForEvent /\ th[p].links = << >>
                THEN Return(@, "nil")
                ELSE EnterScan(@, "auto_scan", "NoTransition")]
    /\ UNCHANGED << config, shared, mainpc, crashed >>

\* SetState: if fsm.CurrentState.WaitForEvent { return nil }.
CheckWait(p) ==
    /\ th[p].pc = "check_wait" /\ ~crashed
    /\ th' = [th EXCEPT ![p] =
                IF CurrentState.WaitForEvent
                THEN Return(@, "nil")
                ELSE EnterScan(@, "auto_scan", "NoTransition")]
    /\ UNCHANGED << config, shared, mainpc, crashed >>

\* The transition of the list at index k leaves the current state.
AutoMatch(k) ==
    Transitions[k].From = CurrentState.Name

\* A SetState that puts back the state the call found when the state it
\* entered has no transition.
AutoScanRollback(p) ==
    /\ th[p].pc = "auto_scan" /\ ~crashed
    /\ LET f == th[p]
           k == f.i
           last == ~AutoMatch(k) /\ k = Len(Transitions)
       IN  /\ th' = [th EXCEPT ![p] =
                       IF AutoMatch(k)
                       THEN [f EXCEPT !.pc = "read_arg", !.t = Transitions[k]]
                       ELSE IF last
                            THEN Return(f, "NoTransition")
                            ELSE [f EXCEPT !.i = k + 1]]
           /\ CurrentState' = IF last THEN f.pre ELSE CurrentState
    /\ UNCHANGED << config, handlers, httpWriter, resp, mainpc, crashed >>

\* SetState: one iteration of the loop that looks for the next transition.
AutoScan(p) ==
    /\ th[p].pc = "auto_scan" /\ ~crashed
    /\ LET f == th[p]
           k == f.i
       IN  th' = [th EXCEPT ![p] =
                    IF AutoMatch(k)
                    THEN [f EXCEPT !.pc = "read_arg", !.t = Transitions[k]]
                    ELSE IF k = Len(Transitions)
                         THEN Return(f, "NoTransition")
                         ELSE [f EXCEPT !.i = k + 1]]
    /\ UNCHANGED << config, shared, mainpc, crashed >>

\* An automatic link that passes on the argument of the link before it.
AutoArgOfEvent(f) == f.arg

\* The argument of an automatic link.
AutoArg(f) == CurrentState.ActionArg

\* SetState: the argument fsm.CurrentState.ActionArg of beginTransition.
ReadArg(p) ==
    /\ th[p].pc = "read_arg" /\ ~crashed
    /\ th' = [th EXCEPT ![p].arg = AutoArg(th[p]), ![p].pc = "call_action"]
    /\ UNCHANGED << config, shared, mainpc, crashed >>

----------------------------------------------------------------------------
Step(p) ==
    \/ SendEvent(p)
    \/ beginTransition(p)
    \/ SetState(p)
    \/ CheckWait(p)
    \/ AutoScan(p)
    \/ ReadArg(p)

\* Requests arrive one at a time.
Next ==
    \/ InitCall
    \/ InitAgain
    \/ InitReturn
    \/ RegisterNext
    \/ \E r \in Requests :
          /\ Alone(r)
          /\ \E decoded \in BOOLEAN, action \in EventNames(Transitions), param \in Params :
                StartRequest(r, decoded, action, param)
    \/ \E r \in Requests : SetWriter(r)
    \/ \E r \in Requests :
          /\ Alone(r)
          /\ \E name \in StateNames(States) : CallSetState(r, name)
    \/ \E r \in Requests : Returned(r)
    \/ \E r \in Requests : Finish(r)
    \/ \E p \in Threads : Step(p)

Spec == Init /\ [][Next]_vars

\* Requests one at a time, followed by MaxReq requests that overlap: net/http
\* runs each request on its own goroutine and the engine takes no lock.
NextConc ==
    \/ InitCall
    \/ InitReturn
    \/ RegisterNext
    \/ \E r \in Requests, action \in EventNames(Transitions), param \in Params :
          StartRequest(r, TRUE, action, param)
    \/ \E r \in Requests : SetWriter(r)
    \/ \E r \in Requests : Returned(r)
    \/ \E r \in Requests : Alone(r) /\ Finish(r)
    \/ \E p \in Threads : Step(p)

\* The overlapping requests are sent to the alarm panel.
InitConc ==
    /\ Init
    /\ States = AlarmConfig.States /\ Transitions = AlarmConfig.Transitions
    /\ regs = Registrations

SpecConc == InitConc /\ [][NextConc]_vars

----------------------------------------------------------------------------
\* Properties

\* A SendEvent call of request r is over (it returned or panicked).
SendOver(r) == th[r].op = "SendEvent" /\ th[r].pc \in {"ret", "done"}

\* Some transition leaves the state named from on the event ev.
HasTransition(from, ev) ==
    \E k \in 1..Len(Transitions) :
        Transitions[k].From = from /\ Transitions[k].Event = ev

\* C1: a SendEvent whose event matches no transition out of the current state
\* returns the TransitionNotFound error, calls no handler (so nothing but the
\* adapter's 400 is written) and leaves fsm.CurrentState as it was.
C1_NoMatchNoChange ==
    \A r \in Requests :
        (SendOver(r) /\ ~HasTransition(th[r].pre.Name, th[r].ev))
        => /\ th[r].ret = "TransitionNotFound"
           /\ th[r].links = << >>
           /\ CurrentState = th[r].pre
           /\ \A k \in 1..Len(resp[r]) : resp[r][k].code = 400

\* The README's sample: ARM sent while the panel is in ENTER_CODE.
C1_Witness ==
    \E r \in Requests :
        /\ th[r].pc = "done" /\ th[r].op = "SendEvent"
        /\ th[r].pre.Name = "ENTER_CODE" /\ th[r].ev = "ARM"
        /\ th[r].ret = "TransitionNotFound"

\* The destination the branching rule gives a link.
Destination(l) ==
    IF l.t.Branch
    THEN (IF l.success THEN l.t.ToSuccess ELSE l.t.ToFailure)
    ELSE l.t.ToSuccess

\* C2: every link goes to toFailure when its transition branches and the
\* handler returned false, and to toSuccess otherwise; that state is the one
\* SetState is called with, and the one that is current after its store.
C2_Branching ==
    \A p \in Threads :
        /\ \A k \in 1..Len(th[p].links) :
              th[p].links[k].nextState = Destination(th[p].links[k])
        /\ (th[p].pc = "check_wait" /\ th[p].links # << >>)
           => CurrentState.Name = Destination(th[p].links[Len(th[p].links)])

\* An unbranched transition taken after the handler returned false.
C2_Witness ==
    \E p \in Threads :
        /\ th[p].pc = "check_wait" /\ th[p].links # << >>
        /\ LET l == th[p].links[Len(th[p].links)]
           IN  ~l.t.Branch /\ ~l.success /\ l.t.ToFailure # l.t.ToSuccess
               /\ CurrentState.Name = l.t.ToSuccess

\* The catalog invariants a valid configuration satisfies: unique state names,
\* every name used is a state, and every non-waiting state has exactly one
\* transition without an event.
IsState(name) == \E k \in 1..Len(States) : States[k].Name = name

Unconditional(name) ==
    {k \in 1..Len(Transitions) :
        Transitions[k].From = name /\ Transitions[k].Event = ""}

ValidCatalog ==
    /\ \A j, k \in 1..Len(States) : States[j].Name = States[k].Name => j = k
    /\ IsState(InitialState)
    /\ \A k \in 1..Len(Transitions) :
          /\ IsState(Transitions[k].From)
          /\ IsState(Transitions[k].ToSuccess)
          /\ Transitions[k].Branch => IsState(Transitions[k].ToFailure)
    /\ \A k \in 1..Len(States) :
          ~States[k].WaitForEvent => Cardinality(Unconditional(States[k].Name)) = 1

\* The handler main() binds to an action name.
Bound(action) ==
    LET hits == {k \in 1..Len(Registrations) : Registrations[k].name = action}
    IN  IF hits = {} THEN "nil" ELSE Registrations[CHOOSE k \in hits : TRUE].f

\* The state reached from the state called name by following the automatic
\* transitions, for at most fuel links, until a state waits for an event.
RECURSIVE FirstWaiting(_, _)
FirstWaiting(name, fuel) ==
    LET s == GetState(name).state
    IN  IF s.WaitForEvent \/ fuel = 0 \/ Unconditional(name) = {}
        THEN name
        ELSE LET t == Transitions[CHOOSE k \in Unconditional(name) : TRUE]
                 ok == HandlerResult(Bound(s.Action), s.ActionArg)
             IN  FirstWaiting(IF t.Branch /\ ~ok THEN t.ToFailure ELSE t.ToSuccess,
                              fuel - 1)

\* The automatic transitions lead from the initial state to a waiting state.
InitialChainEnds ==
    GetState(FirstWaiting(InitialState, Len(States))).state.WaitForEvent

\* fsm.Init() is over and no event has been sent.
InitOver ==
    \/ mainpc = "init" /\ th[Main].pc \in {"ret", "panic", "overflow"}
    \/ mainpc = "register"

\* C3: for a valid configuration, Init() comes back and leaves as the current
\* state the first waiting state on the automatic transitions out of the
\* initial state.
C3_InitReachesFirstWaiting ==
    (ValidCatalog /\ InitialChainEnds /\ InitOver)
    => /\ th[Main].pc \notin {"panic", "overflow"}
       /\ CurrentState.Name = FirstWaiting(InitialState, Len(States))

\* The call of thread p came back with no error, on the surface or inside.
CleanReturn(p) ==
    th[p].pc \in {"ret", "done"} /\ th[p].ret = "nil" /\ th[p].dropped = "nil"

\* C4: in a chain started by SendEvent the first handler is called with the
\* caller's eventParam; every later link leaves a non-waiting state, the one
\* the link before it entered, and its handler is called with that state's
\* actionArg; a chain that meets no error ends with a waiting state current.
C4_ChainArguments ==
    \A r \in Requests :
        th[r].op = "SendEvent" =>
            /\ \A k \in 1..Len(th[r].links) :
                  LET l == th[r].links[k]
                  IN  IF k = 1
                      THEN l.arg = th[r].param /\ l.state = th[r].pre.Name
                      ELSE LET left == GetState(th[r].links[k - 1].nextState).state
                           IN  /\ l.state = left.Name
                               /\ ~left.WaitForEvent
                               /\ l.arg = left.ActionArg
            /\ (CleanReturn(r) /\ th[r].links # << >>) => CurrentState.WaitForEvent

\* The wrong code sent to the alarm panel: the second link is called with
\* "ERROR", the actionArg of SEND_ERROR_RESPONSE, not with "000".
C4_Witness ==
    \E r \in Requests :
        /\ th[r].op = "SendEvent" /\ th[r].pc = "done" /\ th[r].param = "000"
        /\ Len(th[r].links) = 2
        /\ th[r].links[1].arg = "000"
        /\ th[r].links[2].state = "SEND_ERROR_RESPONSE"
        /\ th[r].links[2].arg = "ERROR"
        /\ CurrentState.Name = "ENTER_CODE"

\* The machine is the alarm panel of fsm.json.
IsAlarm ==
    /\ States = AlarmConfig.States /\ Transitions = AlarmConfig.Transitions
    /\ regs = Registrations

\* Request r sent event ev with parameter param in state from, and is over.
Sent(r, from, ev, param) ==
    /\ SendOver(r)
    /\ th[r].pre.Name = from /\ th[r].ev = ev /\ th[r].param = param

\* The names of the states a call was in when it called a handler.
Passed(r) == {th[r].links[k].state : k \in 1..Len(th[r].links)}

\* C5: on the alarm panel ARM takes DISARMED to ENTER_CODE, USER_CODE with
\* "123" takes ENTER_CODE to ARMED, and USER_CODE with "000" takes ENTER_CODE
\* through SEND_ERROR_RESPONSE back to ENTER_CODE.
C5_AlarmScenario ==
    IsAlarm =>
        \A r \in Requests :
            /\ (\E param \in Params : Sent(r, "DISARMED", "ARM", param))
               => CurrentState.Name = "ENTER_CODE"
            /\ Sent(r, "ENTER_CODE", "USER_CODE", "123")
               => CurrentState.Name = "ARMED"
            /\ Sent(r, "ENTER_CODE", "USER_CODE", "000")
               => /\ CurrentState.Name = "ENTER_CODE"
                  /\ "SEND_ERROR_RESPONSE" \in Passed(r)

\* The right code sent in ENTER_CODE arms the panel by way of SEND_OK_RESPONSE.
C5_Witness ==
    /\ IsAlarm
    /\ \E r \in Requests :
          /\ Sent(r, "ENTER_CODE", "USER_CODE", "123")
          /\ th[r].pc = "done"
          /\ CurrentState.Name = "ARMED"
          /\ Passed(r) = {"ENTER_CODE", "SEND_OK_RESPONSE"}

\* The whole of a chain run without interruption: the state that is current
\* when beginTransition(t, arg), called in state cur, has returned.
RECURSIVE RunChain(_, _, _, _)
RunChain(cur, t, arg, fuel) ==
    LET h == Lookup(cur.Action)
        g == GetState(NextStateOf(t, HandlerResult(h, arg)))
        auto == {k \in 1..Len(Transitions) : Transitions[k].From = g.state.Name}
    IN  IF h = "nil" \/ HandlerPanics(h, arg) \/ g.err # "nil"
        THEN cur
        ELSE IF g.state.WaitForEvent \/ auto = {} \/ fuel = 0
             THEN g.state
             ELSE RunChain(g.state,
                           Transitions[CHOOSE k \in auto : \A j \in auto : k <= j],
                           g.state.ActionArg, fuel - 1)

\* The state that is current when SendEvent(ev, param), called in state cur
\* and run without interruption, has returned.
RunSendEvent(cur, ev, param) ==
    LET hits == {k \in 1..Len(Transitions) :
                    Transitions[k].From = cur.Name /\ Transitions[k].Event = ev}
    IN  IF hits = {}
        THEN cur
        ELSE RunChain(cur, Transitions[CHOOSE k \in hits : \A j \in hits : k <= j],
                      param, MaxDepth)

\* The orders in which the calls of the request goroutines can be lined up.
Orders ==
    {o \in [1..MaxReq -> Requests] : \A i, j \in 1..MaxReq : o[i] = o[j] => i = j}

\* The state after the calls of the requests run one after another in order o,
\* from its k-th call on, starting in state cur.
RECURSIVE RunInOrder(_, _, _)
RunInOrder(cur, o, k) ==
    IF k > MaxReq
    THEN cur
    ELSE RunInOrder(RunSendEvent(cur, th[o[k]].ev, th[o[k]].param), o, k + 1)

\* All request goroutines have made a SendEvent call and all calls are over.
AllOver == \A r \in Requests : th[r].pc = "done" /\ th[r].op = "SendEvent"

\* C6: when the overlapping SendEvent calls are all over, the current state is
\* the one that some order of the calls, run one after another from the state
\* in which the first of them arrived, ends in.
C6_Serializable ==
    AllOver =>
        \A a \in Requests :
            th[a].first =>
                \E o \in Orders : CurrentState = RunInOrder(th[a].pre, o, 1)

\* C7: a chain that comes back to a state it has left is stopped with the
\* TransitionCycleDetected error instead of going round: no call leaves the
\* same state twice and none exhausts its stack.
C7_CycleDetected ==
    \A p \in Threads :
        /\ th[p].pc # "overflow"
        /\ \A i, j \in 1..Len(th[p].links) :
              i < j => th[p].links[i].state # th[p].links[j].state

\* C8: SetState called with a name that is no state of the catalog returns the
\* StateNotFound error, calls no handler and leaves fsm.CurrentState as it was.
C8_UnknownStateNoChange ==
    \A r \in Requests :
        (th[r].op = "SetState" /\ th[r].pc # "idle" /\ ~IsState(th[r].name))
        => /\ th[r].pc \in {"ret", "done"}
           /\ th[r].ret = "StateNotFound"
           /\ th[r].links = << >>
           /\ CurrentState = th[r].pre

\* SetState("NOWHERE") while the alarm panel waits in ENTER_CODE.
C8_Witness ==
    \E r \in Requests :
        /\ th[r].op = "SetState" /\ th[r].pc = "done"
        /\ th[r].name = "NOWHERE" /\ th[r].ret = "StateNotFound"
        /\ CurrentState.Name = "ENTER_CODE"

\* C9: a SendEvent or SetState call in whose chain a link failed (the
\* destination is no state, or a non-waiting state has no transition) returns
\* an error, never nil.
C9_ErrorsReturned ==
    \A r \in Requests :
        (th[r].pc \in {"ret", "done"} /\ th[r].dropped # "nil")
        => th[r].ret # "nil"

\* C10: a SendEvent that matches a transition while no handler is registered
\* for the action of the current state returns the HandlerNotRegistered error
\* and leaves fsm.CurrentState as it was.
C10_MissingHandlerError ==
    \A r \in Requests :
        (SendOver(r) /\ HasTransition(th[r].pre.Name, th[r].ev)
                     /\ Lookup(th[r].pre.Action) = "nil")
        => /\ th[r].ret = "HandlerNotRegistered"
           /\ CurrentState = th[r].pre

\* The first transition of the list that leaves the state named from on the
\* event ev; 0 when there is none.
FirstMatch(from, ev) ==
    LET hits == {k \in 1..Len(Transitions) :
                    Transitions[k].From = from /\ Transitions[k].Event = ev}
    IN  IF hits = {} THEN 0 ELSE CHOOSE k \in hits : \A j \in hits : k <= j

\* The states a chain run without interruption leaves, in order: those in
\* which beginTransition(t, arg), called in state cur, and the links after it
\* called a handler that returned.
RECURSIVE RunLeft(_, _, _, _)
RunLeft(cur, t, arg, fuel) ==
    LET h == Lookup(cur.Action)
        g == GetState(NextStateOf(t, HandlerResult(h, arg)))
        auto == {k \in 1..Len(Transitions) : Transitions[k].From = g.state.Name}
    IN  IF h = "nil" \/ HandlerPanics(h, arg)
        THEN << >>
        ELSE IF g.err # "nil" \/ g.state.WaitForEvent \/ auto = {} \/ fuel = 0
             THEN << cur.Name >>
             ELSE << cur.Name >> \o
                  RunLeft(g.state,
                          Transitions[CHOOSE k \in auto : \A j \in auto : k <= j],
                          g.state.ActionArg, fuel - 1)

\* A chain run without interruption ends in a panic.
RECURSIVE RunPanics(_, _, _, _)
RunPanics(cur, t, arg, fuel) ==
    LET h == Lookup(cur.Action)
        g == GetState(NextStateOf(t, HandlerResult(h, arg)))
        auto == {k \in 1..Len(Transitions) : Transitions[k].From = g.state.Name}
    IN  IF h = "nil" \/ HandlerPanics(h, arg)
        THEN TRUE
        ELSE IF g.err # "nil" \/ g.state.WaitForEvent \/ auto = {} \/ fuel = 0
             THEN FALSE
             ELSE RunPanics(g.state,
                            Transitions[CHOOSE k \in auto : \A j \in auto : k <= j],
                            g.state.ActionArg, fuel - 1)

\* What SendEvent(ev, param), called in state cur and run without
\* interruption, gives its caller.
RunSendResult(cur, ev, param) ==
    LET k == FirstMatch(cur.Name, ev)
    IN  IF k = 0 THEN "TransitionNotFound"
        ELSE IF RunPanics(cur, Transitions[k], param, MaxDepth) THEN "panic"
        ELSE "nil"

\* The states SendEvent(ev, param), called in state cur, leaves.
RunSendLeft(cur, ev, param) ==
    LET k == FirstMatch(cur.Name, ev)
    IN  IF k = 0 THEN << >> ELSE RunLeft(cur, Transitions[k], param, MaxDepth)

\* The states the call of request r has left so far.
Left(r) == [k \in 1..Len(th[r].links) |-> th[r].links[k].state]

\* C11: determinism.  The state a SendEvent call ends in, the states it goes
\* through and what it returns are functions of the configuration, the state
\* the call starts in, the event and the parameter, so two machines with the
\* same configuration and starting state that are sent the same events go
\* through the same states and give the same results.
C11_Deterministic ==
    \A r \in Requests :
        SendOver(r) =>
            /\ CurrentState = RunSendEvent(th[r].pre, th[r].ev, th[r].param)
            /\ Left(r) = RunSendLeft(th[r].pre, th[r].ev, th[r].param)
            /\ th[r].ret = RunSendResult(th[r].pre, th[r].ev, th[r].param)

\* The second request has sent GO in state B, where the first request's GO
\* left the machine, and the machine has gone through N to A.
C11_Witness ==
    \E r \in Requests :
        /\ r # 1 /\ th[r].pc = "done"
        /\ Sent(r, "B", "GO", "123")
        /\ Left(r) = << "B", "N" >>
        /\ CurrentState.Name = "A" /\ th[r].ret = "nil"

\* The transitions that leave the state named from on the event ev.
Matches(from, ev) ==
    {k \in 1..Len(Transitions) :
        Transitions[k].From = from /\ Transitions[k].Event = ev}

\* C12: when several transitions match the current state and the event,
\* SendEvent takes the one declared first and only that one: the first link
\* of the call is made with the first match, and every later link of the
\* call starts in the state the link before it chose, never again in the
\* state the call started in by way of another match.
C12_FirstDeclared ==
    \A r \in Requests :
        (th[r].op = "SendEvent" /\ Len(th[r].links) >= 1) =>
            LET l == th[r].links
            IN  /\ Matches(th[r].pre.Name, th[r].ev) # {}
                /\ l[1].state = th[r].pre.Name
                /\ l[1].t = Transitions[FirstMatch(th[r].pre.Name, th[r].ev)]
                /\ l[1].nextState =
                       NextStateOf(Transitions[FirstMatch(th[r].pre.Name, th[r].ev)],
                                   l[1].success)
                /\ \A j \in 2..Len(l) : l[j].state = l[j - 1].nextState

\* GO was sent in state A, which two transitions leave on GO, to B and then
\* to C: the call is over with one link and B current.
C12_Witness ==
    \E r \in Requests :
        /\ th[r].pc = "done" /\ Sent(r, "A", "GO", "000")
        /\ Cardinality(Matches("A", "GO")) = 2
        /\ Len(th[r].links) = 1 /\ th[r].links[1].nextState = "B"
        /\ CurrentState.Name = "B"

\* The configuration violates one of the catalog invariants: initialState
\* names no state, a transition names a state that does not exist, or a
\* non-waiting state has no transition without an event.
CatalogViolated ==
    \/ ~IsState(InitialState)
    \/ \E k \in 1..Len(Transitions) :
          \/ ~IsState(Transitions[k].From)
          \/ ~IsState(Transitions[k].ToSuccess)
          \/ Transitions[k].Branch /\ ~IsState(Transitions[k].ToFailure)
    \/ \E k \in 1..Len(States) :
          ~States[k].WaitForEvent /\ Unconditional(States[k].Name) = {}

\* C13: a configuration that violates a catalog invariant is rejected when it
\* is loaded: the machine never starts serving and no SendEvent is ever
\* processed against it.
C13_BadConfigRejected ==
    CatalogViolated =>
        /\ mainpc # "serve"
        /\ \A r \in Requests : th[r].op # "SendEvent"

\* C14: when the handler called for the first link of a transition fails
\* instead of returning a boolean, the failure reaches the caller of
\* SendEvent and the current state is the one before the call: no link was
\* made.
C14_HandlerFailurePropagates ==
    \A r \in Requests :
        ( /\ SendOver(r)
          /\ FirstMatch(th[r].pre.Name, th[r].ev) # 0
          /\ HandlerPanics(Lookup(th[r].pre.Action), th[r].param) ) =>
            /\ th[r].ret = "panic"
            /\ th[r].links = << >>
            /\ CurrentState = th[r].pre

\* USER_CODE with a wrong code was sent in ENTER_CODE while ValidateCode was
\* bound to the handler that fails on a wrong code: the call ended by the
\* failure with ENTER_CODE still current.
C14_Witness ==
    \E r \in Requests :
        /\ regs = StrictRegistrations
        /\ Sent(r, "ENTER_CODE", "USER_CODE", "000")
        /\ th[r].pc = "done" /\ th[r].ret = "panic"
        /\ CurrentState.Name = "ENTER_CODE"

\* C15: a request whose body cannot be decoded is answered with a
\* bad-request response and never reaches the engine: SendEvent is not
\* called, no handler runs and the current state is the one the request
\* found.
C15_BadBodyNeverReachesEngine ==
    \A r \in Requests :
        ~th[r].decoded =>
            /\ th[r].op = "BadRequest" /\ th[r].pc = "done"
            /\ resp[r] = << [code |-> 400, by |-> r] >>
            /\ th[r].links = << >>
            /\ CurrentState = th[r].pre

\* A request with an undecodable body was answered while the alarm panel
\* waited in ENTER_CODE, where a decoded USER_CODE would have moved it.
C15_Witness ==
    \E r \in Requests :
        /\ IsAlarm /\ ~th[r].decoded /\ th[r].pc = "done"
        /\ resp[r] = << [code |-> 400, by |-> r] >>
        /\ CurrentState.Name = "ENTER_CODE"

\* The handler the last of the first n registrations of main() binds to the
\* name; "nil" when none of them names it.
LastBound(name, n) ==
    LET hits == {k \in 1..n : regs[k].name = name}
    IN  IF hits = {} THEN "nil"
        ELSE regs[CHOOSE k \in hits : \A j \in hits : j <= k].f

\* The names main() registers.
RegisteredNames == {regs[k].name : k \in 1..Len(regs)}

\* C16: registering a name again overwrites its binding without error.  After
\* every Register call each name is bound to the handler of its latest
\* registration, so the other names keep theirs, and every transition out of
\* a state calls the handler registered last for the state's action, never
\* an earlier one.
C16_LastRegistrationWins ==
    /\ (mainpc \in {"register", "serve"} /\ ~crashed) =>
          \A name \in RegisteredNames \cup {"Undefined"} :
              Lookup(name) = LastBound(name, th[Main].i - 1)
    /\ \A r \in Requests : \A k \in 1..Len(th[r].links) :
          th[r].links[k].handler = LastBound(th[r].links[k].action, Len(regs))

\* ValidateCode was registered as validateCode and then as logArg; a wrong
\* code sent in ENTER_CODE was handled by logArg, which accepts it, and the
\* other names are bound as before.
C16_Witness ==
    /\ regs = RebindRegistrations /\ mainpc = "serve" /\ ~crashed
    /\ Lookup("SendResponse") = "sendResponse" /\ Lookup("Log") = "logArg"
    /\ \E r \in Requests :
          /\ Sent(r, "ENTER_CODE", "USER_CODE", "000")
          /\ th[r].links[1].action = "ValidateCode"
          /\ th[r].links[1].handler = "logArg"
          /\ th[r].links[1].success

\* The call of request r is inside the engine: SendEvent or SetState has been
\* entered and has not returned.
InEngine(r) ==
    th[r].pc \in {"send_scan", "call_action", "write_cs", "check_wait",
                  "auto_scan", "read_arg"}

\* C17: mutual exclusion.  At most one transition, with its whole chain, is
\* in progress at a time: a second SendEvent does not read or write the
\* current state before the first has returned.
C17_MutualExclusion ==
    \A a, b \in Requests : (InEngine(a) /\ InEngine(b)) => a = b

\* C18: under any interleaving of requests, every response written while
\* request w is processed goes to the writer of w: the writer of a request
\* holds only what the request's own goroutine wrote.
C18_OwnWriter ==
    \A w \in Requests : \A k \in 1..Len(resp[w]) : resp[w][k].by = w

\* Link k of the call of request r was made with a transition that SetState
\* chose itself: every link of a SetState call, and every link but the first
\* of a SendEvent call.
Automatic(r, k) ==
    /\ k \in 1..Len(th[r].links)
    /\ k >= 2 \/ th[r].op = "SetState"

\* C19: when a non-waiting state becomes current the automatic transition
\* taken is the first declared one that leaves the state and carries no
\* event; a transition that carries an event is never taken automatically.
C19_AutomaticOnlyEmptyEvent ==
    \A r \in Requests : \A k \in 1..Len(th[r].links) :
        Automatic(r, k) =>
            LET l == th[r].links[k]
                u == Unconditional(l.state)
            IN  /\ l.t.Event = ""
                /\ u # {}
                /\ l.t = Transitions[CHOOSE i \in u : \A j \in u : i <= j]

\* Some transition leaves the state called name, and every one that does
\* carries no event.
OnlyEmptyEventOut(name) ==
    /\ \E k \in 1..Len(Transitions) : Transitions[k].From = name
    /\ \A k \in 1..Len(Transitions) :
          Transitions[k].From = name => Transitions[k].Event = ""

\* C20: a transition without an event is never fired by SendEvent in a
\* waiting state: whatever the event name, the empty one included, SendEvent
\* in a waiting state whose transitions all carry no event returns the
\* TransitionNotFound error and leaves the state as it was.
C20_EmptyEventNotFired ==
    \A r \in Requests :
        ( /\ SendOver(r)
          /\ th[r].pre.WaitForEvent
          /\ OnlyEmptyEventOut(th[r].pre.Name) ) =>
            /\ th[r].ret = "TransitionNotFound"
            /\ th[r].links = << >>
            /\ CurrentState = th[r].pre

\* C21: Init, SetState and SendEvent change nothing but the current state:
\* the states, the transitions, initialState, expectedCode and the bindings
\* of the handler registry are after every step of these operations what
\* they were before it, so that handlers registered before Init are still
\* registered after it.  Only the Register calls, which main() makes while
\* it registers, may change the bindings.
C21_OnlyCurrentStateChanges ==
    [][ mainpc # "register" =>
            /\ UNCHANGED << InitialState, States, Transitions, ExpectedCode >>
            /\ handlers'.map = handlers.map ]_vars

\* C22: every link of a transition calls one handler, the one bound to the
\* action of the state being left, and calls it while that state is still
\* current: the first link of a SendEvent leaves the state the call found,
\* every later link leaves the state the link before it chose, and the store
\* of the new state comes after the call.  Entering a waiting state calls no
\* handler: the links SetState makes itself leave non-waiting states only.
C22_HandlerOfStateLeft ==
    \A r \in Requests :
        LET l == th[r].links
            n == Len(l)
        IN  /\ \A k \in 1..n :
                  /\ l[k].action = GetState(l[k].state).state.Action
                  /\ l[k].handler = Lookup(l[k].action)
                  /\ l[k].handler # "nil"
                  /\ (k = 1 /\ th[r].op = "SendEvent") => l[k].state = th[r].pre.Name
                  /\ k >= 2 => l[k].state = l[k - 1].nextState
                  /\ Automatic(r, k) => ~GetState(l[k].state).state.WaitForEvent
            /\ (th[r].pc = "write_cs" /\ n >= 1) => CurrentState.Name = l[n].state
            /\ (th[r].pc = "check_wait" /\ n >= 1) => CurrentState.Name = l[n].nextState

\* The right code was sent to the alarm panel in ENTER_CODE: validateCode
\* was called for ENTER_CODE and sendResponse for SEND_OK_RESPONSE, and the
\* call is about to make the waiting state ARMED current, for which no
\* handler is called.
C22_Witness ==
    \E r \in Requests :
        /\ IsAlarm /\ th[r].pc = "write_cs" /\ th[r].newState.Name = "ARMED"
        /\ CurrentState.Name = "SEND_OK_RESPONSE"
        /\ Len(th[r].links) = 2
        /\ th[r].links[1].handler = "validateCode"
        /\ th[r].links[2].handler = "sendResponse"

\* No call of the engine is in progress: main() serves and every request
\* goroutine is outside the engine.
AtRest ==
    /\ mainpc = "serve" /\ ~crashed
    /\ \A r \in Requests : th[r].pc \in {"idle", "ret", "done"}

\* C23: resting-state invariant.  For a valid configuration, whenever no
\* operation is in progress after Init, and so whenever Init, SetState or
\* SendEvent has returned, the current state is a state of the catalog that
\* waits for an event.
C23_RestingStateWaits ==
    (ValidCatalog /\ AtRest) =>
        /\ IsState(CurrentState.Name)
        /\ CurrentState.WaitForEvent

\* The names of the states that do not wait for an event.
NonWaiting == {States[k].Name : k \in {j \in 1..Len(States) : ~States[j].WaitForEvent}}

\* The non-waiting states SetState can go to next from the non-waiting state
\* called name: the destinations of the first transition that leaves it.
AutoDest(name) ==
    LET auto == {k \in 1..Len(Transitions) : Transitions[k].From = name}
        t == Transitions[CHOOSE k \in auto : \A j \in auto : k <= j]
    IN  IF auto = {} THEN {}
        ELSE ({t.ToSuccess} \cup (IF t.Branch THEN {t.ToFailure} ELSE {}))
             \cap NonWaiting

\* The non-waiting states reached from those of the set in at most fuel
\* automatic transitions.
RECURSIVE AutoReach(_, _)
AutoReach(set, fuel) ==
    IF fuel = 0 THEN set
    ELSE AutoReach(set \cup UNION {AutoDest(n) : n \in set}, fuel - 1)

\* The non-waiting states form no cycle under their automatic transitions.
Acyclic == \A n \in NonWaiting : n \notin AutoReach(AutoDest(n), Len(States))

\* C24: termination.  In a configuration whose non-waiting states form no
\* cycle every Init and every SendEvent call returns: none ends in a panic
\* or in an exhausted stack, and none calls more than one handler plus one
\* for every non-waiting state.
C24_CallsReturn ==
    Acyclic =>
        \A p \in Threads :
            th[p].op \in {"Init", "SendEvent"} =>
                /\ th[p].pc \notin {"panic", "overflow"}
                /\ th[p].ret # "panic"
                /\ Len(th[p].links) <= 1 + Cardinality(NonWaiting)

\* The chain of the SendEvent call of request r failed after a link was
\* completed: the destination of a later link is no state of the catalog, or
\* the non-waiting state a link entered has no transition.
FailedAfterLink(r) ==
    /\ SendOver(r)
    /\ \/ th[r].dropped = "NoTransition"
       \/ th[r].dropped = "StateNotFound" /\ Len(th[r].links) >= 2

\* C25: no rollback.  When a chain fails after a link was completed the
\* current state is the last state that was entered, not the state the
\* SendEvent call found: the state the last link entered when that state has
\* no transition, the state the last link tried to leave when its destination
\* is no state.
C25_NoRollback ==
    \A r \in Requests :
        FailedAfterLink(r) =>
            LET l == th[r].links
                n == Len(l)
                entered == IF th[r].dropped = "NoTransition"
                           THEN l[n].nextState ELSE l[n - 1].nextState
            IN  /\ CurrentState = GetState(entered).state
                /\ GetState(entered).err = "nil"
                /\ CurrentState # th[r].pre

\* CHAIN was sent in S0: the machine entered MID, whose transition goes to a
\* state that does not exist, and MID is current.  Or LOST was sent with a
\* wrong code and the machine entered DEAD, which has no transition.
C25_Witness ==
    \E r \in Requests :
        /\ th[r].pc = "done" /\ FailedAfterLink(r)
        /\ \/ Sent(r, "S0", "CHAIN", "123") /\ CurrentState.Name = "MID"
           \/ Sent(r, "S0", "LOST", "000") /\ CurrentState.Name = "DEAD"

\* C26: single response.  For every request handled by eventHandler at most
\* one response is written to the writer of the request, the writes of the
\* handlers during the chain and the error response of eventHandler taken
\* together.
C26_SingleResponse ==
    \A w \in Requests : Len(resp[w]) <= 1

\* The states in which the alarm panel waits for an event.
AlarmResting == {"DISARMED", "ENTER_CODE", "ARMED"}

\* C27: absorbing state.  On the alarm panel a SendEvent that finds ARMED
\* current returns an error and leaves ARMED current, whatever the event and
\* the parameter; and between calls the current state is DISARMED,
\* ENTER_CODE or ARMED: Init leaves DISARMED current and every SendEvent
\* that finds one of the three leaves one of the three.
C27_ArmedAbsorbing ==
    IsAlarm =>
        /\ mainpc = "register" => CurrentState.Name = "DISARMED"
        /\ \A r \in Requests :
              SendOver(r) =>
                  /\ th[r].pre.Name = "ARMED" =>
                        /\ th[r].ret = "TransitionNotFound"
                        /\ th[r].links = << >>
                        /\ CurrentState = th[r].pre
                  /\ th[r].pre.Name \in AlarmResting =>
                        CurrentState.Name \in AlarmResting

\* The alarm panel was armed and ARM was sent again: the call returned the
\* error and ARMED is current.
C27_Witness ==
    \E r \in Requests :
        /\ IsAlarm /\ th[r].pc = "done"
        /\ Sent(r, "ARMED", "ARM", "123")
        /\ th[r].ret = "TransitionNotFound"
        /\ CurrentState.Name = "ARMED"

====
